---- MODULE Spec2Model ----
(***************************************************************************)
(* Window manager of devinci.cloud-frontend: the Window class              *)
(* (src/src/js/window.js) and the Environment class                        *)
(* (src/src/js/environment.js) as one state machine.                       *)
(*                                                                         *)
(* A JS window object is a record; objects are named by a handle, their    *)
(* position in objs (allocation order), because the code tells objects     *)
(* apart by identity (Array.indexOf) and by id (Map key) in different      *)
(* places.  Every Environment / Window method is an operator from an       *)
(* environment record to an environment record, so that a handler that     *)
(* calls several methods is the composition of their operators.  An        *)
(* uncaught exception stops the handler where it is raised: the operator   *)
(* returns the state reached so far with threw = TRUE.                     *)
(***************************************************************************)
EXTENDS Integers, Sequences, FiniteSets, TLC

VARIABLES
  objs,               \* every Window object constructed so far, by handle
  windows,            \* Environment.windows: handles in Map iteration order
  icons,              \* Environment.icons: ids that have a taskbar pin
  dom,                \* handles whose element is a child of the environment
  windowTypes,        \* Environment.windowTypes: the registered keys
  currentlyDragging,  \* Environment.currentlyDragging (NoWindow = none)
  snapshot,           \* localStorage item 'windowEnvironmentState'
  listeners,          \* document-level resize listener pairs per handle
  gestures,           \* pointer-down events so far
  vw, vh,             \* window.innerWidth, window.innerHeight
  emitted,            \* events emitted by the last operation, in order
  invoked,            \* the listeners the last operation's emits called, in order
  threw,              \* the last operation ended in an uncaught exception
  handlers,           \* an EventEmitter's #listeners: event name -> callbacks
  registrations,      \* the on() calls made on that emitter, in call order
  called,             \* the callbacks its last emit invoked, in order
  lastOp              \* the last operation: its name, the object it was given,
                      \* whether that object was a member of the collection
                      \* when it began, its other arguments and the window
                      \* it returned

vars == <<objs, windows, icons, dom, windowTypes, currentlyDragging,
          snapshot, listeners, gestures, vw, vh, emitted, invoked, threw,
          handlers, registrations, called, lastOp>>

----------------------------------------------------------------------------
(* Bounds and input sets *)

MaxWindows == 2      \* Window objects constructed in one desktop run
MaxGestures == 2     \* pointer-down events in one desktop run
GeomWindows == 1     \* Window objects constructed in one geometry run
GeomGestures == 1    \* pointer-down events in one geometry run
StackWindows == 3    \* Window objects constructed in one stacking run
StackGestures == 1   \* pointer-down events in one stacking run
RegWindows == 2      \* Window objects constructed in one registry run
LoadWindows == 1     \* Window objects constructed in one content-loading run
SessionWindows == 2  \* Window objects constructed per page load in one session run
SessionGestures == 1 \* pointer-down events in one session run
MaxRegistrations == 3  \* on() calls in one emitter run
WireWindows == 2     \* Window objects constructed in one event-wiring run
WireGestures == 1    \* pointer-down events in one event-wiring run

zIndexBase == 1000
NoWindow == 0

None == <<>>
Some(v) == <<v>>

Handles == 1..Len(objs)

\* the four corner handles of createResizeHandles: <<dx, dy>>
ResizeHandles == {<<-1, -1>>, <<1, -1>>, <<-1, 1>>, <<1, 1>>}

\* newWindow draws fresh uuids
Uuid(n) == "u" \o ToString(n)

SubclassesOfWindow == {"Popup", "ChatWindow", "EmojiSelector", "MusicPlayerWindow"}

\* a config that has no title, no content and no events; events are the
\* entries of config.events, <<event, handler>>, in Object.entries order
Config(size, pos, st) ==
  [width |-> size[1], height |-> size[2], x |-> pos[1], y |-> pos[2], styles |-> st,
   title |-> None, content |-> None, isMinimized |-> FALSE, events |-> <<>>]

\* What the outside world feeds a run: the calls' arguments, the pointer
\* events' coordinates, the viewport sizes, and the results of Math.random()
\* in halves; downs are the coordinates of pointer-down events, pointers
\* those of pointer-move events.  A desktop run has several windows of one configuration; a
\* geometry run has every configuration on one window.
Desk ==
  [maxWindows |-> MaxWindows,
   maxGestures |-> MaxGestures,
   ids |-> {"a"},
   classes |-> {"Window"},
   configs |-> {Config(<<None, None>>, <<Some(50), Some(50)>>, FALSE)},
   randoms |-> {0},
   viewports |-> {<<1000, 800>>},
   downs |-> {<<100, 100>>},
   pointers |-> {<<100, 100>>, <<700, 600>>},
   handles |-> {<<1, 1>>}]

Geom ==
  [maxWindows |-> GeomWindows,
   maxGestures |-> GeomGestures,
   ids |-> {"a"},
   classes |-> {"Window"},
   configs |-> { Config(sz, pos, st) :
                   sz \in {<<None, None>>, <<Some(300), Some(200)>>, <<Some(160), Some(80)>>},
                   pos \in {<<None, None>>, <<Some(50), Some(50)>>},
                   st \in {FALSE} },
   randoms |-> {0, 1},
   viewports |-> {<<1000, 800>>, <<500, 300>>},
   downs |-> {<<100, 100>>},
   pointers |-> {<<100, 100>>, <<50, 80>>, <<700, 600>>},
   handles |-> ResizeHandles]

\* a stacking run has three windows of one configuration and title-bar
\* gestures only
Stack ==
  [maxWindows |-> StackWindows,
   maxGestures |-> StackGestures,
   ids |-> {"a"},
   classes |-> {"Window"},
   configs |-> {Config(<<None, None>>, <<Some(50), Some(50)>>, FALSE)},
   randoms |-> {0},
   viewports |-> {<<1000, 800>>},
   downs |-> {<<100, 100>>},
   pointers |-> {<<100, 100>>},
   handles |-> {<<1, 1>>}]

\* a registry run has windows of registered and unregistered classes, of
\* classes that do and do not extend Window, made from full and partial
\* configs, and no pointer gestures
Reg ==
  [maxWindows |-> RegWindows,
   maxGestures |-> 0,
   ids |-> {"a", "b"},
   classes |-> {"Window", "MusicPlayerWindow", "Object"},
   configs |-> { Config(sz, <<Some(50), Some(50)>>, st) :
                   sz \in {<<None, None>>, <<Some(0), Some(0)>>, <<Some(300), Some(200)>>},
                   st \in BOOLEAN },
   randoms |-> {0},
   viewports |-> {<<1000, 800>>},
   downs |-> {},
   pointers |-> {},
   handles |-> {}]

\* a session run has two windows of one configuration, dragged by their
\* title bars to the viewport's left edge, and page reloads
Session ==
  [maxWindows |-> SessionWindows,
   maxGestures |-> SessionGestures,
   ids |-> {"a"},
   classes |-> {"Window"},
   configs |-> {Config(<<None, None>>, <<Some(50), Some(50)>>, FALSE)},
   randoms |-> {0, 1},
   viewports |-> {<<1000, 800>>},
   downs |-> {<<100, 100>>},
   pointers |-> {<<50, 80>>},
   handles |-> {<<1, 1>>}]

\* an event-wiring run has windows whose configs carry event handlers:
\* none, one for close, two for close around one for drag, and one each for
\* focus and minimize
Wire ==
  [maxWindows |-> WireWindows,
   maxGestures |-> WireGestures,
   ids |-> {"a"},
   classes |-> {"Window"},
   configs |-> { [Config(<<None, None>>, <<Some(50), Some(50)>>, FALSE)
                    EXCEPT !.events = evs] :
                  evs \in { <<>>,
                            << <<"close", "f">> >>,
                            << <<"close", "g">>, <<"drag", "f">>, <<"close", "f">> >>,
                            << <<"focus", "g">>, <<"minimize", "f">> >> } },
   randoms |-> {0},
   viewports |-> {<<1000, 800>>},
   downs |-> {<<100, 100>>},
   pointers |-> {<<50, 80>>},
   handles |-> {<<1, 1>>}]

Min(a, b) == IF a < b THEN a ELSE b
Max(a, b) == IF a > b THEN a ELSE b

\* JS `a || d` on an optional number: undefined and 0 are falsy
OrNum(opt, d) == IF opt = None \/ opt[1] = 0 THEN d ELSE opt[1]

\* JS `a || d` on an optional string: undefined and '' are falsy
OrStr(opt, d) == IF opt = None \/ opt[1] = "" THEN d ELSE opt[1]

----------------------------------------------------------------------------
(* The environment record the methods work on *)

Cur ==
  [objs |-> objs, windows |-> windows, icons |-> icons, dom |-> dom,
   windowTypes |-> windowTypes, currentlyDragging |-> currentlyDragging,
   snapshot |-> snapshot, listeners |-> listeners, gestures |-> gestures,
   vw |-> vw, vh |-> vh, emitted |-> <<>>, invoked |-> <<>>, threw |-> FALSE,
   ret |-> NoWindow]

CommitArg(e, op, h, arg) ==
  /\ objs' = e.objs
  /\ windows' = e.windows
  /\ icons' = e.icons
  /\ dom' = e.dom
  /\ windowTypes' = e.windowTypes
  /\ currentlyDragging' = e.currentlyDragging
  /\ snapshot' = e.snapshot
  /\ listeners' = e.listeners
  /\ gestures' = e.gestures
  /\ vw' = e.vw
  /\ vh' = e.vh
  /\ emitted' = e.emitted
  /\ invoked' = e.invoked
  /\ threw' = e.threw
  /\ UNCHANGED <<handlers, registrations, called>>
  /\ lastOp' = [op |-> op, h |-> h,
                member |-> h # NoWindow /\ (\E k \in 1..Len(windows) : windows[k] = h),
                arg |-> arg, ret |-> e.ret]

Commit(e, op, h) == CommitArg(e, op, h, <<>>)

\* Map.has(id) / Map.get(id) on Environment.windows
MemberIds(e) == { e.objs[e.windows[k]].id : k \in 1..Len(e.windows) }
\* has() given the id but asked of the registry, as the lookup of a class is
HasIdInRegistry(e, id) == id \in DOMAIN e.windowTypes

HasId(e, id) == id \in MemberIds(e)

GetById(e, id) == CHOOSE h \in { e.windows[k] : k \in 1..Len(e.windows) } : e.objs[h].id = id
IsMember(e, h) == \E k \in 1..Len(e.windows) : e.windows[k] = h

----------------------------------------------------------------------------
(* Environment: z-order and persistence *)

\* Window.getState plus the className saveState adds
getState(o) ==
  [width |-> o.width, height |-> o.height, x |-> o.x, y |-> o.y,
   zIndex |-> o.zIndex, isMinimized |-> o.isMinimized,
   title |-> o.title, content |-> o.content, className |-> o.className]

ZIndexAt(e, h) ==
  zIndexBase + (CHOOSE k \in 1..Len(e.windows) : e.windows[k] = h) - 1

updateZIndices(e) ==
  [e EXCEPT !.objs = [h \in DOMAIN e.objs |->
     IF IsMember(e, h) THEN [e.objs[h] EXCEPT !.zIndex = ZIndexAt(e, h)]
     ELSE e.objs[h]]]

saveState(e) ==
  [e EXCEPT !.snapshot =
     [present |-> TRUE,
      windows |-> [k \in 1..Len(e.windows) |-> getState(e.objs[e.windows[k]])]]]

clearSavedState(e) ==
  [e EXCEPT !.snapshot = [present |-> FALSE, windows |-> <<>>]]

\* bringToFront with unshift in place of push: the window goes first
bringToFrontUnshift(e, h) ==
  IF IsMember(e, h)
  THEN LET NotH(g) == g # h
           e1 == [e EXCEPT !.windows = <<h>> \o SelectSeq(e.windows, NotH)]
       IN saveState(updateZIndices(e1))
  ELSE e

\* bringToFront without its `index !== -1` test: splice(-1, 1) drops the last
\* window and the push adds the one given
bringToFrontUnguarded(e, h) ==
  LET NotH(g) == g # h
      rest == IF IsMember(e, h) THEN SelectSeq(e.windows, NotH)
              ELSE SubSeq(e.windows, 1, Len(e.windows) - 1)
  IN saveState(updateZIndices([e EXCEPT !.windows = Append(rest, h)]))

bringToFront(e, h) ==
  IF IsMember(e, h)
  THEN LET NotH(g) == g # h
           e1 == [e EXCEPT !.windows = Append(SelectSeq(e.windows, NotH), h)]
       IN saveState(updateZIndices(e1))
  ELSE e

pinWindow(e, h) == [e EXCEPT !.icons = @ \cup {e.objs[h].id}]

\* removeWindow without its `this.windows.has(window.id)` test
removeWindowUnguarded(e, h) ==
  LET id == e.objs[h].id
      OtherId(g) == e.objs[g].id # id
      e1 == [e EXCEPT !.windows = SelectSeq(e.windows, OtherId)]
  IN IF h \notin e1.dom THEN [e1 EXCEPT !.threw = TRUE]
     ELSE LET e2 == [e1 EXCEPT !.dom = @ \ {h}] IN
          IF id \notin e2.icons THEN [e2 EXCEPT !.threw = TRUE]
          ELSE saveState(updateZIndices([e2 EXCEPT !.icons = @ \ {id}]))

\* removeWindow without its this.icons.delete(window.id)
removeWindowKeepsPin(e, h) ==
  LET id == e.objs[h].id
      OtherId(g) == e.objs[g].id # id
  IN IF ~HasId(e, id) THEN e
     ELSE LET e1 == [e EXCEPT !.windows = SelectSeq(e.windows, OtherId)] IN
          IF h \notin e1.dom THEN [e1 EXCEPT !.threw = TRUE]
          ELSE LET e2 == [e1 EXCEPT !.dom = @ \ {h}] IN
               IF id \notin e2.icons THEN [e2 EXCEPT !.threw = TRUE]
               ELSE saveState(updateZIndices(e2))

removeWindow(e, h) ==
  LET id == e.objs[h].id
      OtherId(g) == e.objs[g].id # id
  IN IF ~HasId(e, id) THEN e
     ELSE LET e1 == [e EXCEPT !.windows = SelectSeq(e.windows, OtherId)] IN
          \* environment.removeChild(window.element): NotFoundError
          IF h \notin e1.dom THEN [e1 EXCEPT !.threw = TRUE]
          ELSE LET e2 == [e1 EXCEPT !.dom = @ \ {h}] IN
               \* removeChild(this.icons.get(window.id)): TypeError on undefined
               IF id \notin e2.icons THEN [e2 EXCEPT !.threw = TRUE]
               ELSE LET e3 == [e2 EXCEPT !.icons = @ \ {id}]
                    IN saveState(updateZIndices(e3))

startDragging(e, h) ==
  bringToFront([e EXCEPT !.currentlyDragging = h], h)

----------------------------------------------------------------------------
(* EventEmitter.emit with the listeners createWindow attaches *)

\* the listeners createWindow attaches to every window, <<event, callback>>,
\* in the order of its on() calls, for the events a window emits
InternalListeners ==
  << <<"close", "removeWindow">>, <<"focus", "bringToFront">>,
     <<"dragStart", "startDragging">>, <<"minimize", "saveState">>,
     <<"drag", "saveState">>, <<"dragEnd", "saveState">> >>

\* the on() calls of createWindow with the internal listeners first
wireEventsInternalFirst(cfg) == InternalListeners \o cfg.events

\* the on() calls createWindow makes on the window it constructed
wireEvents(cfg) == cfg.events \o InternalListeners

\* one callback of a window's listeners called with the window; a handler
\* of config.events is any function: the call is recorded and changes nothing
call(e, h, ev, cb) ==
  LET e1 == [e EXCEPT !.invoked =
               Append(@, [cb |-> cb, ev |-> ev, h |-> h, member |-> IsMember(e, h)])]
  IN CASE cb = "removeWindow" -> removeWindow(e1, h)
       [] cb = "bringToFront" -> bringToFront(e1, h)
       [] cb = "startDragging" -> startDragging(e1, h)
       [] cb = "saveState" -> saveState(e1)
       [] OTHER -> e1

\* #listeners[event].forEach(callback => callback(data)): an exception in a
\* callback ends the loop
RECURSIVE forEach(_, _, _, _)
forEach(e, h, ev, subs) ==
  IF subs = <<>> \/ e.threw THEN e
  ELSE forEach(IF subs[1][1] = ev THEN call(e, h, ev, subs[1][2]) ELSE e,
               h, ev, Tail(subs))

emit(e, h, ev) ==
  forEach([e EXCEPT !.emitted = Append(@, <<ev, h>>)], h, ev, e.objs[h].subscribed)

----------------------------------------------------------------------------
(* EventEmitter on its own: #listeners as a function from the event names
   that have an entry to the callbacks pushed under them *)

EventNames == {"close", "focus"}
Callbacks == {"f", "g"}

\* on with unshift in place of push
onUnshift(L, ev, cb) ==
  IF ev \in DOMAIN L THEN [L EXCEPT ![ev] = <<cb>> \o @]
  ELSE [k \in DOMAIN L \cup {ev} |-> IF k = ev THEN <<cb>> ELSE L[k]]

on(L, ev, cb) ==
  IF ev \in DOMAIN L THEN [L EXCEPT ![ev] = Append(@, cb)]
  ELSE [k \in DOMAIN L \cup {ev} |-> IF k = ev THEN <<cb>> ELSE L[k]]

\* the callbacks emit(ev) invokes, in order
EventEmitter_emit(L, ev) == IF ev \in DOMAIN L THEN L[ev] ELSE <<>>

----------------------------------------------------------------------------
(* Window: drag, resize, minimize *)

SetObj(e, h, o) == [e EXCEPT !.objs[h] = o]

startDrag(e, h, p) ==
  LET o == e.objs[h] IN
  emit(SetObj(e, h, [o EXCEPT !.isDragging = TRUE,
                              !.initialX = o.x, !.initialY = o.y,
                              !.initialMouseX = p[1], !.initialMouseY = p[2]]),
       h, "dragStart")

\* drag without its `if (!this.isDragging) return`
dragUnguarded(e, h, p) ==
  LET o == e.objs[h]
      deltaX == p[1] - o.initialMouseX
      deltaY == p[2] - o.initialMouseY
      newX == Max(0, Min(o.initialX + deltaX, e.vw - o.width))
      newY == Max(0, Min(o.initialY + deltaY, e.vh - o.height))
  IN emit(SetObj(e, h, [o EXCEPT !.x = newX, !.y = newY]), h, "drag")

drag(e, h, p) ==
  LET o == e.objs[h] IN
  IF ~o.isDragging THEN e
  ELSE LET deltaX == p[1] - o.initialMouseX
           deltaY == p[2] - o.initialMouseY
           newX == Max(0, Min(o.initialX + deltaX, e.vw - o.width))
           newY == Max(0, Min(o.initialY + deltaY, e.vh - o.height))
       IN emit(SetObj(e, h, [o EXCEPT !.x = newX, !.y = newY]), h, "drag")

dragEnd(e, h) ==
  LET o == e.objs[h] IN
  IF ~o.isDragging THEN e
  ELSE emit(SetObj(e, h, [o EXCEPT !.isDragging = FALSE]), h, "dragEnd")

\* toggleMinimize that calls minimize() on both branches
toggleMinimizeNoRestore(e, h) ==
  LET o == e.objs[h] IN
  emit(SetObj(e, h, [o EXCEPT !.isMinimized = TRUE]), h, "minimize")

toggleMinimize(e, h) ==
  LET o == e.objs[h] IN
  emit(SetObj(e, h, [o EXCEPT !.isMinimized = ~o.isMinimized]), h, "minimize")

startResize(e, h, d, p) ==
  LET o == e.objs[h]
      e1 == SetObj(e, h, [o EXCEPT !.isResizing = TRUE,
                                   !.initialWidth = Some(o.width),
                                   !.initialHeight = Some(o.height),
                                   !.initialX = o.x, !.initialY = o.y,
                                   !.initialMouseX = p[1], !.initialMouseY = p[2],
                                   !.resizeDirX = Some(d[1]),
                                   !.resizeDirY = Some(d[2])])
  IN [e1 EXCEPT !.listeners[h] = @ + 1]

\* resize without the Math.max(200, ...) and Math.max(100, ...) floors
resizeNoMinimum(e, h, p) ==
  LET o == e.objs[h] IN
  IF ~o.isResizing THEN e
  ELSE LET deltaX == p[1] - o.initialMouseX
           deltaY == p[2] - o.initialMouseY
           dirX == o.resizeDirX[1]
           dirY == o.resizeDirY[1]
           newWidth == o.initialWidth[1] + deltaX * dirX
           newHeight == o.initialHeight[1] + deltaY * dirY
           movedX == IF dirX < 0
                     THEN o.initialX + (o.initialWidth[1] - newWidth)
                     ELSE o.x
           movedY == IF dirY < 0
                     THEN o.initialY + (o.initialHeight[1] - newHeight)
                     ELSE o.y
           newX == Max(0, Min(movedX, e.vw - newWidth))
           newY == Max(0, Min(movedY, e.vh - newHeight))
       IN SetObj(e, h, [o EXCEPT !.width = newWidth, !.height = newHeight,
                                 !.x = newX, !.y = newY])

resize(e, h, p) ==
  LET o == e.objs[h] IN
  IF ~o.isResizing THEN e
  ELSE LET deltaX == p[1] - o.initialMouseX
           deltaY == p[2] - o.initialMouseY
           dirX == o.resizeDirX[1]
           dirY == o.resizeDirY[1]
           newWidth == IF dirX # 0
                       THEN Max(200, o.initialWidth[1] + deltaX * dirX)
                       ELSE o.initialWidth[1]
           newHeight == IF dirY # 0
                        THEN Max(100, o.initialHeight[1] + deltaY * dirY)
                        ELSE o.height
           movedX == IF dirX < 0
                     THEN o.initialX + (o.initialWidth[1] - newWidth)
                     ELSE o.x
           movedY == IF dirY < 0
                     THEN o.initialY + (o.initialHeight[1] - newHeight)
                     ELSE o.y
           newX == Max(0, Min(movedX, e.vw - newWidth))
           newY == Max(0, Min(movedY, e.vh - newHeight))
       IN SetObj(e, h, [o EXCEPT !.width = newWidth, !.height = newHeight,
                                 !.x = newX, !.y = newY])

\* endResize without its `if (!this.isResizing) return`
endResizeUnguarded(e, h) ==
  emit(SetObj(e, h, [e.objs[h] EXCEPT !.isResizing = FALSE]), h, "resize")

endResize(e, h) ==
  LET o == e.objs[h] IN
  IF ~o.isResizing THEN e
  ELSE emit(SetObj(e, h, [o EXCEPT !.isResizing = FALSE]), h, "resize")

handleResize(e, h) ==
  LET o == e.objs[h]
      maxX == Max(0, e.vw - o.width)
      maxY == Max(0, e.vh - o.height)
  IN SetObj(e, h, [o EXCEPT !.x = Min(o.x, maxX), !.y = Min(o.y, maxY)])

----------------------------------------------------------------------------
(* Window: remote content *)

\* HTMLImageElement is called as a function, without `new`: the call of a DOM
\* interface object throws a TypeError
HTMLImageElementThrows == TRUE

\* what fetch(url) and the parse of its text come to: a rejected fetch, a
\* response that is not ok, or a page with or without a title and a body
LoadOutcomes ==
  {[kind |-> "network error", title |-> None, body |-> None],
   [kind |-> "http error", title |-> None, body |-> None],
   [kind |-> "ok", title |-> Some("Page"), body |-> Some("<p>")],
   [kind |-> "ok", title |-> None, body |-> None]}

\* the try block of fetchWindowContents and its catch
loadContents(e, h, oldTitle, oldContent, outcome) ==
  LET o == e.objs[h] IN
  IF outcome.kind = "ok"
  THEN SetObj(e, h, [o EXCEPT
         !.title = IF outcome.title = None \/ outcome.title = Some("")
                   THEN oldTitle ELSE outcome.title,
         !.content = IF outcome.body = None \/ outcome.body = Some("")
                     THEN oldContent ELSE outcome.body])
  ELSE SetObj(e, h, [o EXCEPT !.title = oldTitle, !.content = oldContent])

fetchWindowContents(e, h, outcome) ==
  LET o == e.objs[h]
      e1 == SetObj(e, h, [o EXCEPT !.title = Some("Loading...")])
  IN IF HTMLImageElementThrows THEN [e1 EXCEPT !.threw = TRUE]
     ELSE loadContents(e1, h, o.title, o.content, outcome)

----------------------------------------------------------------------------
(* Environment: global pointer tracking *)

onMouseMove(e, p) ==
  IF e.currentlyDragging # NoWindow THEN drag(e, e.currentlyDragging, p) ELSE e

onMouseUp(e) ==
  IF e.currentlyDragging # NoWindow
  THEN [dragEnd(e, e.currentlyDragging) EXCEPT !.currentlyDragging = NoWindow]
  ELSE e

----------------------------------------------------------------------------
(* Window construction and the Environment's factory *)

\* the registry the Environment's constructor builds: name -> defaults
InitialWindowTypes ==
  [n \in {"Window", "ChatWindow", "Popup", "EmojiSelector"} |->
     CASE n = "Window" -> [width |-> 600, height |-> 400, title |-> "Window", content |-> ""]
       [] n = "ChatWindow" -> [width |-> 600, height |-> 400, title |-> "Chat", content |-> ""]
       [] n = "Popup" -> [width |-> 300, height |-> 200, title |-> "Popup", content |-> ""]
       [] n = "EmojiSelector" -> [width |-> 300, height |-> 400, title |-> "Emojis", content |-> ""]]

\* windowTypes.set(WindowClass, ...) keys the entry by the class object,
\* windowTypes.has(WindowClass.name) looks a name up: two different keys
ClassKey(cls) == "class " \o cls

\* new Window(id, config): the fields the constructor sets.  rx, ry are the
\* results of its two Math.random() calls, in halves.
Window(id, cls, cfg, rx, ry, e) ==
  LET w == cfg.width[1]
      ht == cfg.height[1]
  IN [id |-> id, className |-> cls, width |-> w, height |-> ht,
      title |-> cfg.title, content |-> cfg.content,
      zIndex |-> 1, isMinimized |-> cfg.isMinimized,
      events |-> cfg.events, subscribed |-> <<>>,
      isDragging |-> FALSE, isResizing |-> FALSE,
      initialX |-> 0, initialY |-> 0, initialMouseX |-> 0, initialMouseY |-> 0,
      initialWidth |-> None, initialHeight |-> None,
      resizeDirX |-> None, resizeDirY |-> None,
      x |-> OrNum(cfg.x, Min(Max(0, (rx * (e.vw - w - 100)) \div 2), e.vw - w)),
      y |-> OrNum(cfg.y, Min(Max(100, (ry * (e.vh - ht)) \div 2 - 100), e.vh - ht))]

\* for (const k in defaultconfig) config[k] = config[k] || defaultconfig[k]
MergeDefaults(cfg, def) ==
  [cfg EXCEPT !.width = Some(OrNum(cfg.width, def.width)),
              !.height = Some(OrNum(cfg.height, def.height)),
              !.title = Some(OrStr(cfg.title, def.title)),
              !.content = Some(OrStr(cfg.content, def.content)),
              !.styles = TRUE]

createWindow(e, id, cls, cfg, rx, ry) ==
  IF HasId(e, id) THEN [e EXCEPT !.ret = GetById(e, id)]
  ELSE
    LET registered == cls \in DOMAIN e.windowTypes
        subclass == cls \in SubclassesOfWindow
        e1 == IF ~registered /\ subclass
              THEN [e EXCEPT !.windowTypes =
                      [k \in DOMAIN e.windowTypes \cup {ClassKey(cls)} |->
                         IF k = ClassKey(cls)
                         THEN [width |-> OrNum(cfg.width, 600),
                               height |-> OrNum(cfg.height, 400),
                               title |-> OrStr(cfg.title, "")]
                         ELSE e.windowTypes[k]]]
              ELSE e
        cls1 == IF ~registered /\ ~subclass THEN "Window" ELSE cls
        cfg1 == IF registered THEN MergeDefaults(cfg, e.windowTypes[cls]) ELSE cfg
    IN \* #createElement reads this.#config.styles.titlebar_fontsize
       IF ~cfg1.styles THEN [e1 EXCEPT !.threw = TRUE]
       ELSE LET h == Len(e1.objs) + 1
                w == [Window(id, cls1, cfg1, rx, ry, e1) EXCEPT
                        !.subscribed = wireEvents(cfg1)]
                e2 == [e1 EXCEPT !.objs = Append(@, w),
                                 !.listeners = Append(@, 0),
                                 !.windows = Append(@, h),
                                 !.dom = @ \cup {h},
                                 !.ret = h]
            IN saveState(updateZIndices(e2))

\* newWindow without its pinWindow call
newWindowUnpinned(e, cls, cfg, rx, ry) ==
  LET id == Uuid(Len(e.objs) + 1)
      e1 == createWindow(e, id, cls, cfg, rx, ry)
  IN IF e1.threw THEN e1
     ELSE saveState(updateZIndices(bringToFront(e1, e1.ret)))

\* ret is the window createWindow returned (the new one or the existing one)
newWindow(e, cls, cfg, rx, ry) ==
  LET id == Uuid(Len(e.objs) + 1)
      e1 == createWindow(e, id, cls, cfg, rx, ry)
  IN IF e1.threw THEN e1
     ELSE LET h == e1.ret
          IN saveState(updateZIndices(bringToFront(pinWindow(e1, h), h)))

----------------------------------------------------------------------------
(* Session restore *)

\* the config a saved window state is, after JSON.stringify and JSON.parse
SavedConfig(st) ==
  [width |-> Some(st.width), height |-> Some(st.height),
   x |-> Some(st.x), y |-> Some(st.y), styles |-> TRUE,
   title |-> st.title, content |-> st.content, isMinimized |-> st.isMinimized,
   events |-> <<>>]

\* one window per entry of the snapshot, in its order, each constructed by
\* createWindow from the entry's class name and saved state under a fresh id
RECURSIVE restoreFrom(_, _, _, _)
restoreFrom(e, saved, rx, ry) ==
  IF saved = <<>> \/ e.threw THEN e
  ELSE restoreFrom(createWindow(e, Uuid(Len(e.objs) + 1), saved[1].className,
                                SavedConfig(saved[1]), rx, ry),
                   Tail(saved), rx, ry)

\* a page load: a new Environment, then the restore of the snapshot found
restore(e, rx, ry) ==
  LET fresh == [e EXCEPT !.objs = <<>>, !.windows = <<>>, !.icons = {}, !.dom = {},
                         !.windowTypes = InitialWindowTypes,
                         !.currentlyDragging = NoWindow, !.listeners = <<>>]
  IN IF e.snapshot.present
     THEN [restoreFrom(fresh, e.snapshot.windows, rx, ry) EXCEPT !.ret = NoWindow]
     ELSE fresh

----------------------------------------------------------------------------
(* The document's listeners: the Environment's, then every startResize's *)

RECURSIVE ApplyTimes(_, _, _, _)
ApplyTimes(e, h, n, isMove) ==
  IF n = 0 THEN e
  ELSE ApplyTimes(IF isMove.move THEN resize(e, h, isMove.p) ELSE endResize(e, h),
                  h, n - 1, isMove)

RECURSIVE ResizeListeners(_, _, _)
ResizeListeners(e, h, ev) ==
  IF h > Len(e.objs) THEN e
  ELSE ResizeListeners(ApplyTimes(e, h, e.listeners[h], ev), h + 1, ev)

documentMouseMove(e, p) ==
  ResizeListeners(onMouseMove(e, p), 1, [move |-> TRUE, p |-> p])

documentMouseUp(e) ==
  ResizeListeners(onMouseUp(e), 1, [move |-> FALSE, p |-> <<0, 0>>])

RECURSIVE windowResize(_, _)
windowResize(e, h) ==
  IF h > Len(e.objs) THEN e ELSE windowResize(handleResize(e, h), h + 1)

----------------------------------------------------------------------------
(* Actions *)

\* DOM events reach a window whose element is attached and displayed
Visible(h) == h \in dom /\ ~objs[h].isMinimized

\* a config an unregistered class is constructed from is used as given, so
\* it carries its own width and height
Usable(cls, cfg) == cls \in DOMAIN windowTypes \/ cfg.width # None

Init(S) ==
  /\ objs = <<>>
  /\ windows = <<>>
  /\ icons = {}
  /\ dom = {}
  /\ windowTypes = InitialWindowTypes
  /\ currentlyDragging = NoWindow
  /\ snapshot = [present |-> FALSE, windows |-> <<>>]
  /\ listeners = <<>>
  /\ gestures = 0
  /\ \E v \in S.viewports : vw = v[1] /\ vh = v[2]
  /\ emitted = <<>>
  /\ invoked = <<>>
  /\ threw = FALSE
  /\ handlers = [ev \in {} |-> <<>>]
  /\ registrations = <<>>
  /\ called = <<>>
  /\ lastOp = [op |-> "init", h |-> NoWindow, member |-> FALSE,
               arg |-> <<>>, ret |-> NoWindow]

CreateWindow(S) ==
  \E id \in S.ids, cls \in S.classes, cfg \in S.configs, rx \in S.randoms, ry \in S.randoms :
    /\ Len(objs) < S.maxWindows
    /\ Usable(cls, cfg)
    /\ CommitArg(createWindow(Cur, id, cls, cfg, rx, ry), "createWindow", NoWindow,
                 <<id, cls, cfg>>)

NewWindow(S) ==
  \E cls \in S.classes, cfg \in S.configs, rx \in S.randoms, ry \in S.randoms :
    /\ Len(objs) < S.maxWindows
    /\ Usable(cls, cfg)
    /\ CommitArg(newWindow(Cur, cls, cfg, rx, ry), "newWindow", NoWindow,
                 <<Uuid(Len(objs) + 1), cls, cfg>>)

RemoveWindow ==
  \E h \in Handles : Commit(removeWindow(Cur, h), "removeWindow", h)

Close ==
  \E h \in Handles : Visible(h) /\ Commit(emit(Cur, h, "close"), "close", h)

BringToFront ==
  \E h \in Handles : Commit(bringToFront(Cur, h), "bringToFront", h)

Focus ==
  \E h \in Handles : Visible(h) /\ Commit(emit(Cur, h, "focus"), "focus", h)

PointerDownTitle(S) ==
  \E h \in Handles, p \in S.downs :
    /\ Visible(h)
    /\ gestures < S.maxGestures
    /\ Commit(startDrag([Cur EXCEPT !.gestures = @ + 1], h, p), "startDrag", h)

PointerDownHandle(S) ==
  \E h \in Handles, d \in S.handles, p \in S.downs :
    /\ Visible(h)
    /\ gestures < S.maxGestures
    /\ Commit(startResize([Cur EXCEPT !.gestures = @ + 1], h, d, p), "startResize", h)

PointerMove(S) ==
  \E p \in S.pointers : CommitArg(documentMouseMove(Cur, p), "mousemove", NoWindow, p)

PointerUp == Commit(documentMouseUp(Cur), "mouseup", NoWindow)

ToggleMinimize ==
  \E h \in Handles :
    /\ Visible(h) \/ objs[h].id \in icons
    /\ Commit(toggleMinimize(Cur, h), "toggleMinimize", h)

ViewportResize(S) ==
  \E v \in S.viewports :
    /\ v # <<vw, vh>>
    /\ Commit(windowResize([Cur EXCEPT !.vw = v[1], !.vh = v[2]], 1), "viewportResize", NoWindow)

FetchWindowContents ==
  \E h \in Handles, outcome \in LoadOutcomes :
    CommitArg(fetchWindowContents(Cur, h, outcome), "fetchWindowContents", h, outcome)

Reload(S) ==
  \E rx \in S.randoms, ry \in S.randoms :
    Commit(restore(Cur, rx, ry), "reload", NoWindow)

SaveState == Commit(saveState(Cur), "saveState", NoWindow)

ClearSavedState == Commit(clearSavedState(Cur), "clearSavedState", NoWindow)

On ==
  \E ev \in EventNames, cb \in Callbacks :
    /\ Len(registrations) < MaxRegistrations
    /\ handlers' = on(handlers, ev, cb)
    /\ registrations' = Append(registrations, <<ev, cb>>)
    /\ called' = <<>>
    /\ lastOp' = [op |-> "on", h |-> NoWindow, member |-> FALSE,
                  arg |-> <<ev, cb>>, ret |-> NoWindow]
    /\ UNCHANGED <<objs, windows, icons, dom, windowTypes, currentlyDragging,
                   snapshot, listeners, gestures, vw, vh, emitted, invoked, threw>>

Emit ==
  \E ev \in EventNames :
    /\ called' = EventEmitter_emit(handlers, ev)
    /\ lastOp' = [op |-> "emit", h |-> NoWindow, member |-> FALSE,
                  arg |-> <<ev>>, ret |-> NoWindow]
    /\ UNCHANGED <<objs, windows, icons, dom, windowTypes, currentlyDragging,
                   snapshot, listeners, gestures, vw, vh, emitted, invoked, threw,
                   handlers, registrations>>

\* a desktop run
Next ==
  \/ CreateWindow(Desk)
  \/ NewWindow(Desk)
  \/ RemoveWindow
  \/ Close
  \/ BringToFront
  \/ Focus
  \/ PointerDownTitle(Desk)
  \/ PointerDownHandle(Desk)
  \/ PointerMove(Desk)
  \/ PointerUp
  \/ ToggleMinimize
  \/ SaveState
  \/ ClearSavedState

InitDesk == Init(Desk)

Spec == InitDesk /\ [][Next]_vars

\* a geometry run
NextGeom ==
  \/ CreateWindow(Geom)
  \/ NewWindow(Geom)
  \/ RemoveWindow
  \/ Close
  \/ BringToFront
  \/ Focus
  \/ PointerDownTitle(Geom)
  \/ PointerDownHandle(Geom)
  \/ PointerMove(Geom)
  \/ PointerUp
  \/ ToggleMinimize
  \/ ViewportResize(Geom)
  \/ SaveState
  \/ ClearSavedState

InitGeom == Init(Geom)

SpecGeom == InitGeom /\ [][NextGeom]_vars

\* a stacking run
NextStack ==
  \/ CreateWindow(Stack)
  \/ NewWindow(Stack)
  \/ RemoveWindow
  \/ Close
  \/ BringToFront
  \/ Focus
  \/ PointerDownTitle(Stack)
  \/ PointerMove(Stack)
  \/ PointerUp
  \/ ToggleMinimize
  \/ SaveState
  \/ ClearSavedState

InitStack == Init(Stack)

SpecStack == InitStack /\ [][NextStack]_vars

\* a registry run
NextReg ==
  \/ CreateWindow(Reg)
  \/ NewWindow(Reg)
  \/ RemoveWindow
  \/ Close
  \/ BringToFront
  \/ Focus
  \/ ToggleMinimize
  \/ SaveState
  \/ ClearSavedState

InitReg == Init(Reg)

SpecReg == InitReg /\ [][NextReg]_vars

\* a content-loading run: a registry run of one window, with loads
Load == [Reg EXCEPT !.maxWindows = LoadWindows]

NextLoad ==
  \/ CreateWindow(Load)
  \/ NewWindow(Load)
  \/ RemoveWindow
  \/ Close
  \/ BringToFront
  \/ Focus
  \/ ToggleMinimize
  \/ FetchWindowContents
  \/ SaveState
  \/ ClearSavedState

InitLoad == Init(Load)

SpecLoad == InitLoad /\ [][NextLoad]_vars

\* a session run
NextSession ==
  \/ CreateWindow(Session)
  \/ NewWindow(Session)
  \/ RemoveWindow
  \/ Close
  \/ BringToFront
  \/ Focus
  \/ PointerDownTitle(Session)
  \/ PointerMove(Session)
  \/ PointerUp
  \/ ToggleMinimize
  \/ Reload(Session)
  \/ SaveState
  \/ ClearSavedState

InitSession == Init(Session)

SpecSession == InitSession /\ [][NextSession]_vars

\* an event-wiring run
NextWire ==
  \/ CreateWindow(Wire)
  \/ NewWindow(Wire)
  \/ RemoveWindow
  \/ Close
  \/ BringToFront
  \/ Focus
  \/ PointerDownTitle(Wire)
  \/ PointerMove(Wire)
  \/ PointerUp
  \/ ToggleMinimize
  \/ SaveState
  \/ ClearSavedState

InitWire == Init(Wire)

SpecWire == InitWire /\ [][NextWire]_vars

\* an emitter run
NextEmitter == On \/ Emit

InitEmitter == Init(Desk)

SpecEmitter == InitEmitter /\ [][NextEmitter]_vars

----------------------------------------------------------------------------
(* Properties *)

Members == { windows[k] : k \in 1..Len(windows) }

ZContiguous(e) ==
  \A k \in 1..Len(e.windows) : e.objs[e.windows[k]].zIndex = zIndexBase + k - 1

SnapshotCurrent(e) == e.snapshot = saveState(e).snapshot

InViewport(o) ==
  /\ 0 <= o.x /\ o.x <= vw - o.width
  /\ 0 <= o.y /\ o.y <= vh - o.height

Geometry(o) == <<o.x, o.y, o.width, o.height>>

\* the windows a pointer-move is delivered to: the one the Environment
\* tracks, while it is dragging, and every window that is resizing
Responds(h) ==
  \/ objs[h].isResizing
  \/ currentlyDragging = h /\ objs[h].isDragging

Count(seq, x) == Cardinality({ i \in 1..Len(seq) : seq[i] = x })

\* C1: the k-th window of the collection (0-indexed) has z-index
\* zIndexBase + k, whatever createWindow, newWindow, removeWindow,
\* bringToFront, focus and dragStart operations came before.
C1_ZIndicesContiguous == ZContiguous(Cur)

\* C2: after a pointer-move, every window that responded to it lies inside
\* the viewport: 0 <= x <= viewportWidth - width, 0 <= y <= viewportHeight - height.
C2_InsideViewportAfterPointerMove ==
  lastOp.op = "mousemove" =>
    \A h \in Handles : Responds(h) => InViewport(objs[h])

\* C3: after a pointer-move of a drag or a resize, the window that responded
\* is at least 200 wide and 100 high.
C3_MinimumSizeAfterPointerMove ==
  lastOp.op = "mousemove" =>
    \A h \in Handles : Responds(h) => objs[h].width >= 200 /\ objs[h].height >= 100

\* C4: at most one member window is dragging and at most one is resizing.
C4_OneDraggingOneResizing ==
  /\ Cardinality({ h \in Members : objs[h].isDragging }) <= 1
  /\ Cardinality({ h \in Members : objs[h].isResizing }) <= 1

\* C5: no window is dragging and resizing at the same time.
C5_DraggingExcludesResizing ==
  \A h \in Handles : ~(objs[h].isDragging /\ objs[h].isResizing)

\* C6: a global pointer-up leaves the currently-dragging marker empty and
\* every window that was dragging idle, each having emitted dragEnd once.
C6_PointerUpEndsEveryDrag ==
  [][lastOp'.op = "mouseup" =>
       /\ currentlyDragging' = NoWindow
       /\ \A h \in Handles :
            objs[h].isDragging =>
              /\ ~objs'[h].isDragging
              /\ Count(emitted', <<"dragEnd", h>>) = 1]_vars

\* C7: one pointer-move changes the geometry of at most one window.
C7_PointerMoveMovesOneWindow ==
  [][lastOp'.op = "mousemove" =>
       Cardinality({ h \in Handles : Geometry(objs'[h]) # Geometry(objs[h]) }) <= 1]_vars

\* C8: removeWindow on a member window either completes (the window is
\* evicted and detached, its pin is gone, the z-indices are recomputed, the
\* snapshot is the serialized collection) or changes nothing; it never throws.
C8_RemoveWindowAllOrNothing ==
  [][(lastOp'.op \in {"removeWindow", "close"} /\ lastOp'.member) =>
       /\ ~threw'
       /\ \/ /\ lastOp'.h \notin { windows'[k] : k \in 1..Len(windows') }
             /\ lastOp'.h \notin dom'
             /\ objs'[lastOp'.h].id \notin icons'
             /\ \A k \in 1..Len(windows') : objs'[windows'[k]].zIndex = zIndexBase + k - 1
             /\ snapshot' = [present |-> TRUE,
                             windows |-> [k \in 1..Len(windows') |-> getState(objs'[windows'[k]])]]
          \/ /\ windows' = windows
             /\ objs' = objs
             /\ snapshot' = snapshot]_vars

\* C9: in every state, for every window, a second removeWindow right after
\* a first one changes neither the collection, the pins, the z-indices nor the
\* snapshot, and does not throw.
C9_RemoveWindowTwice ==
  \A h \in Handles :
    LET once == [removeWindow(Cur, h) EXCEPT !.threw = FALSE]
    IN removeWindow(once, h) = once

\* a removeWindow call on a window that is no longer a member and was
\* detached earlier has run, beside a window that is still a member
C9_Witness ==
  /\ lastOp.op = "removeWindow"
  /\ ~lastOp.member
  /\ lastOp.h \notin dom
  /\ ~threw
  /\ windows # <<>>

\* C10: in every state, for every member window, a second bringToFront right
\* after a first one leaves the order and the z-indices as the first left them;
\* bringToFront on a window that is not a member changes nothing.
C10_BringToFrontIdempotent ==
  \A h \in Handles :
    LET once == bringToFront(Cur, h)
    IN /\ bringToFront(once, h) = once
       /\ h \notin Members => once = Cur

\* bringToFront was called on the member window that was created first, and
\* that window is now in front of the one created after it
C10_Witness ==
  /\ lastOp.op = "bringToFront"
  /\ lastOp.member
  /\ lastOp.h = 1
  /\ windows = <<2, 1>>
  /\ objs[1].zIndex = zIndexBase + 1

\* the window an operation brings to the front: the member given to
\* bringToFront, focus or a drag start, or the window a creation added
Raised(op, before, after) ==
  IF op.op \in {"bringToFront", "focus", "startDrag"} /\ op.member THEN {op.h}
  ELSE IF op.op \in {"createWindow", "newWindow"} /\ op.ret # NoWindow
          /\ op.ret \notin before /\ op.ret \in after THEN {op.ret}
  ELSE {}

\* C11: every operation that brings a member window to the front (bringToFront,
\* focus, drag start, creation) leaves it with a z-index strictly greater than
\* every other member's, and every operation keeps the relative z-order of the
\* other windows that stay members.
C11_ZOrderFollowsRecency ==
  [][LET after == { windows'[k] : k \in 1..Len(windows') }
         raised == Raised(lastOp', Members, after)
     IN /\ \A h \in raised : \A g \in after \ {h} : objs'[h].zIndex > objs'[g].zIndex
        /\ \A g1, g2 \in (Members \cap after) \ raised :
             objs[g1].zIndex < objs[g2].zIndex => objs'[g1].zIndex < objs'[g2].zIndex]_vars

\* a drag start or a click raised the window created first above the two
\* created after it, which keep their order
C11_Witness ==
  /\ lastOp.op \in {"focus", "startDrag"}
  /\ lastOp.h = 1
  /\ windows = <<2, 3, 1>>
  /\ objs[2].zIndex < objs[3].zIndex
  /\ objs[3].zIndex < objs[1].zIndex

\* the last step was a createWindow call with an id no member had
CreatedFresh == lastOp'.op = "createWindow" /\ lastOp'.arg[1] \notin MemberIds(Cur)

\* C12: createWindow with an id that is present returns the window that has
\* it and changes neither the objects (so neither the z-indices), the
\* collection and its order, the pins, the registry nor the snapshot, and
\* does not throw.
C12_DuplicateIdReturnsExisting ==
  [][(lastOp'.op = "createWindow" /\ lastOp'.arg[1] \in MemberIds(Cur)) =>
       /\ ~threw'
       /\ lastOp'.ret = GetById(Cur, lastOp'.arg[1])
       /\ UNCHANGED <<objs, windows, icons, dom, windowTypes, snapshot>>]_vars

\* createWindow was called with the id of the only window and with a class
\* that is not registered; the window came back and nothing was registered
C12_Witness ==
  /\ lastOp.op = "createWindow"
  /\ Len(objs) = 1
  /\ windows = <<1>>
  /\ lastOp.ret = 1
  /\ lastOp.arg[1] = objs[1].id
  /\ lastOp.arg[2] = "MusicPlayerWindow"
  /\ objs[1].className = "Window"
  /\ ClassKey("MusicPlayerWindow") \notin DOMAIN windowTypes

\* C13: createWindow with a fresh id and a class that is neither registered
\* nor a subclass of Window does not throw and returns a new member window of
\* the base Window class, whatever the config.
C13_UnknownClassFallsBack ==
  [][(CreatedFresh /\ lastOp'.arg[2] \notin DOMAIN windowTypes
                   /\ lastOp'.arg[2] \notin SubclassesOfWindow) =>
       /\ ~threw'
       /\ lastOp'.ret = Len(objs) + 1
       /\ IsMember(Cur', lastOp'.ret)
       /\ objs'[lastOp'.ret].className = "Window"]_vars

\* C14: after createWindow with an unregistered subclass of Window, the
\* registry lookup by the class's name finds the class registered, with the
\* width and height of the config as its defaults.
C14_SubclassIsRegistered ==
  [][(CreatedFresh /\ lastOp'.arg[2] \notin DOMAIN windowTypes
                   /\ lastOp'.arg[2] \in SubclassesOfWindow) =>
       /\ lastOp'.arg[2] \in DOMAIN windowTypes'
       /\ windowTypes'[lastOp'.arg[2]] =
            [width |-> OrNum(lastOp'.arg[3].width, 600),
             height |-> OrNum(lastOp'.arg[3].height, 400),
             title |-> OrStr(lastOp'.arg[3].title, "")]]_vars

\* C15: createWindow with a fresh id and a registered class makes a window
\* whose width and height are the config's where the config has them
\* (whatever the value, 0 included) and the type's defaults where it has not.
C15_SuppliedFieldsKept ==
  [][(CreatedFresh /\ lastOp'.arg[2] \in DOMAIN windowTypes /\ ~threw') =>
       LET cfg == lastOp'.arg[3]
           def == windowTypes[lastOp'.arg[2]]
           o == objs'[lastOp'.ret]
       IN /\ o.width = IF cfg.width = None THEN def.width ELSE cfg.width[1]
          /\ o.height = IF cfg.height = None THEN def.height ELSE cfg.height[1]]_vars

\* C16: when newWindow returns, the window it returns has an id no member
\* and no pin had, is a member, has a pin under its id, is last in the
\* collection with a z-index above every other member's, and the snapshot is
\* the serialized collection with it.
C16_NewWindowPinnedOnTop ==
  [][(lastOp'.op = "newWindow" /\ ~threw') =>
       LET h == lastOp'.ret IN
       /\ h \in 1..Len(objs')
       /\ objs'[h].id \notin MemberIds(Cur)
       /\ objs'[h].id \notin icons
       /\ objs'[h].id \in icons'
       /\ windows' # <<>>
       /\ windows'[Len(windows')] = h
       /\ \A k \in 1..(Len(windows') - 1) : objs'[windows'[k]].zIndex < objs'[h].zIndex
       /\ snapshot'.present
       /\ snapshot'.windows = [k \in 1..Len(windows') |-> getState(objs'[windows'[k]])]]_vars

\* newWindow returned a second window, of a class it found unregistered, on
\* top of a first one
C16_Witness ==
  /\ lastOp.op = "newWindow"
  /\ ~threw
  /\ lastOp.ret = 2
  /\ windows = <<1, 2>>
  /\ objs[2].className = "MusicPlayerWindow"
  /\ objs[2].id \in icons
  /\ objs[2].zIndex = zIndexBase + 1

Clamp(v, lo, hi) == Max(lo, Min(v, hi))

\* C17: after a pointer-move at p, every window that is dragging is at
\* x = clamp(initialX + (p.x - initialMouseX), 0, viewportWidth - width) and
\* y = clamp(initialY + (p.y - initialMouseY), 0, viewportHeight - height),
\* the anchors being the fields startDrag set.
C17_DragPosition ==
  lastOp.op = "mousemove" =>
    \A h \in Handles :
      objs[h].isDragging =>
        /\ objs[h].x = Clamp(objs[h].initialX + (lastOp.arg[1] - objs[h].initialMouseX),
                             0, vw - objs[h].width)
        /\ objs[h].y = Clamp(objs[h].initialY + (lastOp.arg[2] - objs[h].initialMouseY),
                             0, vh - objs[h].height)

C19_BottomRightKeepsPosition ==
  [][lastOp'.op = "mousemove" =>
       \A h \in Handles :
         (objs[h].isResizing /\ objs[h].resizeDirX = Some(1) /\ objs[h].resizeDirY = Some(1)) =>
           objs'[h].x = objs[h].x /\ objs'[h].y = objs[h].y]_vars

\* C20: after a pointer-move, a window that is resizing from a left handle
\* has x + width = initialX + initialWidth and one that is resizing from a
\* top handle has y + height = initialY + initialHeight.
C20_OppositeEdgeFixed ==
  lastOp.op = "mousemove" =>
    \A h \in Handles :
      objs[h].isResizing =>
        /\ objs[h].resizeDirX = Some(-1) =>
             objs[h].x + objs[h].width = objs[h].initialX + objs[h].initialWidth[1]
        /\ objs[h].resizeDirY = Some(-1) =>
             objs[h].y + objs[h].height = objs[h].initialY + objs[h].initialHeight[1]

\* C21: a viewport size change leaves every window with
\* 0 <= x <= viewportWidth - width and 0 <= y <= viewportHeight - height in
\* the new viewport, and with the width and height it had.
C21_ViewportResizeReclamps ==
  [][lastOp'.op = "viewportResize" =>
       \A h \in Handles :
         /\ 0 <= objs'[h].x /\ objs'[h].x <= vw' - objs'[h].width
         /\ 0 <= objs'[h].y /\ objs'[h].y <= vh' - objs'[h].height
         /\ objs'[h].width = objs[h].width
         /\ objs'[h].height = objs[h].height]_vars

\* C22: a window constructed from a config without x and y has x >= 0,
\* y >= 0, x <= viewportWidth - width and y <= viewportHeight - height.
C22_DefaultPlacementInViewport ==
  [][(lastOp'.op \in {"createWindow", "newWindow"} /\ Len(objs') = Len(objs) + 1
        /\ lastOp'.arg[3].x = None /\ lastOp'.arg[3].y = None) =>
       LET o == objs'[Len(objs')]
       IN /\ 0 <= o.x /\ o.x <= vw' - o.width
          /\ 0 <= o.y /\ o.y <= vh' - o.height]_vars

\* C23: in every state, toggleMinimize on a window that is not minimized
\* makes it minimized and leaves its geometry, and a second toggleMinimize
\* gives back the window as it was.
C23_ToggleMinimizeTwice ==
  \A h \in Handles :
    ~objs[h].isMinimized =>
      LET once == toggleMinimize(Cur, h)
          twice == toggleMinimize(once, h)
      IN /\ once.objs[h].isMinimized
         /\ Geometry(once.objs[h]) = Geometry(objs[h])
         /\ ~twice.objs[h].isMinimized
         /\ twice.objs[h] = objs[h]

\* a minimize toggle has just restored a window, somewhere else than where
\* it was created
C23_Witness ==
  /\ lastOp.op = "toggleMinimize"
  /\ ~objs[lastOp.h].isMinimized
  /\ Count(emitted, <<"minimize", lastOp.h>>) = 1
  /\ objs[lastOp.h].x # 50

\* the last step was one of the mutations that are persisted: an add, a
\* remove of a member, a reorder of a member, a drag move, a drag end or a
\* minimize toggle
Persisted ==
  \/ lastOp'.op \in {"createWindow", "newWindow"} /\ Len(objs') = Len(objs) + 1
  \/ lastOp'.op \in {"removeWindow", "close", "bringToFront", "focus", "startDrag"}
       /\ lastOp'.member
  \/ lastOp'.op = "toggleMinimize"
  \/ lastOp'.op = "mousemove" /\ \E h \in Handles : Count(emitted', <<"drag", h>>) > 0
  \/ lastOp'.op = "mouseup" /\ \E h \in Handles : Count(emitted', <<"dragEnd", h>>) > 0

\* C24: after each persisted mutation the snapshot is the serialization of
\* the collection as it now is: one entry per member, in collection order,
\* with the member's current geometry, z-index and minimized flag.
C24_SnapshotFollowsMutations ==
  [][Persisted =>
       /\ snapshot'.present
       /\ snapshot'.windows = [k \in 1..Len(windows') |-> getState(objs'[windows'[k]])]]_vars

\* C26: a window that is neither dragging nor resizing has its scratch
\* fields as the constructor left them: initialX, initialY, initialMouseX and
\* initialMouseY 0, initialWidth, initialHeight, resizeDirX and resizeDirY unset.
C26_ScratchClearedWhenIdle ==
  \A h \in Handles :
    (~objs[h].isDragging /\ ~objs[h].isResizing) =>
      /\ objs[h].initialX = 0 /\ objs[h].initialY = 0
      /\ objs[h].initialMouseX = 0 /\ objs[h].initialMouseY = 0
      /\ objs[h].initialWidth = None /\ objs[h].initialHeight = None
      /\ objs[h].resizeDirX = None /\ objs[h].resizeDirY = None

\* C27: in every state, drag and dragEnd on a window that is not dragging,
\* resize and endResize on a window that is not resizing, and onMouseMove and
\* onMouseUp with no currently-dragging window change no window and no
\* Environment state and emit nothing.
C27_OutOfStateNoOps ==
  \A h \in Handles, p \in Geom.pointers :
    /\ ~objs[h].isDragging => drag(Cur, h, p) = Cur /\ dragEnd(Cur, h) = Cur
    /\ ~objs[h].isResizing => resize(Cur, h, p) = Cur /\ endResize(Cur, h) = Cur
    /\ currentlyDragging = NoWindow => onMouseMove(Cur, p) = Cur /\ onMouseUp(Cur) = Cur

\* a global pointer-up arrived after the drag and the resize of a window had
\* ended, and did nothing
C27_Witness ==
  /\ lastOp.op = "mouseup"
  /\ emitted = <<>>
  /\ currentlyDragging = NoWindow
  /\ \E h \in Handles :
       /\ ~objs[h].isDragging /\ ~objs[h].isResizing
       /\ objs[h].initialWidth # None
       /\ listeners[h] > 0

\* C30: a drag start of a member window makes it the currently-dragging
\* window and the top of the z-order; the currently-dragging window stays the
\* same until a global pointer-up; and every global pointer-move calls the
\* drag handler of the currently-dragging window.
C30_DragTracking ==
  [][/\ (lastOp'.op = "startDrag" /\ lastOp'.member) =>
          /\ currentlyDragging' = lastOp'.h
          /\ windows'[Len(windows')] = lastOp'.h
          /\ \A k \in 1..(Len(windows') - 1) :
               objs'[windows'[k]].zIndex < objs'[lastOp'.h].zIndex
     /\ (currentlyDragging # NoWindow /\ lastOp'.op # "mouseup") =>
          currentlyDragging' = currentlyDragging
     /\ (currentlyDragging # NoWindow /\ lastOp'.op = "mousemove") =>
          Count(emitted', <<"drag", currentlyDragging>>) = 1]_vars

RECURSIVE RegisteredFor(_, _)
RegisteredFor(regs, ev) ==
  IF regs = <<>> THEN <<>>
  ELSE IF regs[1][1] = ev THEN <<regs[1][2]>> \o RegisteredFor(Tail(regs), ev)
  ELSE RegisteredFor(Tail(regs), ev)

C29_FailedLoadRestores ==
  [][(lastOp'.op = "fetchWindowContents"
        /\ lastOp'.arg.kind \in {"network error", "http error"}) =>
       /\ ~threw'
       /\ objs'[lastOp'.h].title = objs[lastOp'.h].title
       /\ objs'[lastOp'.h].content = objs[lastOp'.h].content]_vars

\* a saved state without its z-index
WithoutZIndex(st) == [st EXCEPT !.zIndex = 0]

\* C25: a restore of a snapshot that saveState made of the current
\* collection gives a collection of as many windows, in the same order, each
\* with the x, y, width, height and minimized flag of the one it stands for,
\* and a save after it gives the same snapshot but for the z-indices.
C25_SaveRestoreRoundTrip ==
  [][(lastOp'.op = "reload" /\ snapshot.present /\ SnapshotCurrent(Cur)) =>
       /\ ~threw'
       /\ Len(windows') = Len(windows)
       /\ \A k \in 1..Len(windows) :
            /\ k <= Len(windows')
            /\ Geometry(objs'[windows'[k]]) = Geometry(objs[windows[k]])
            /\ objs'[windows'[k]].isMinimized = objs[windows[k]].isMinimized
       /\ [k \in 1..Len(windows') |-> WithoutZIndex(getState(objs'[windows'[k]]))]
            = [k \in 1..Len(snapshot.windows) |-> WithoutZIndex(snapshot.windows[k])]]_vars

\* the calls the last operation's emit of ev on window h made, in order
CallsOf(h, ev) ==
  LET Mine(c) == c.h = h /\ c.ev = ev IN SelectSeq(invoked, Mine)

InternalCallbacks == { InternalListeners[i][2] : i \in 1..Len(InternalListeners) }

C32_DraggingMarkerIsMember ==
  currentlyDragging = NoWindow \/ currentlyDragging \in Members

\* a resizing window with the geometry its startResize captured
AtResizeStart(o) ==
  [o EXCEPT !.x = o.initialX, !.y = o.initialY,
            !.width = o.initialWidth[1], !.height = o.initialHeight[1]]

\* C33: a pointer-move at p leaves a window that is resizing (and not also
\* dragging) with the x, y, width and height that a pointer-move at p gives
\* the window as it was at resize start, whatever pointer-moves came between.
C33_ResizePathIndependent ==
  [][lastOp'.op = "mousemove" =>
       \A h \in Handles :
         (objs[h].isResizing /\ ~objs[h].isDragging) =>
           Geometry(objs'[h]) =
             Geometry(resize(SetObj(Cur, h, AtResizeStart(objs[h])), h, lastOp'.arg).objs[h])]_vars

\* C34: after a global pointer-up that ends the resize of a member window,
\* with a snapshot in the store, the window is idle and the snapshot's entry
\* at the window's position holds its width, height, x and y.
C34_ResizeEndIsPersisted ==
  [][(lastOp'.op = "mouseup" /\ snapshot.present) =>
       \A k \in 1..Len(windows) :
         objs[windows[k]].isResizing =>
           /\ ~objs'[windows[k]].isResizing
           /\ snapshot'.present
           /\ k <= Len(snapshot'.windows)
           /\ Geometry(snapshot'.windows[k]) = Geometry(objs'[windows[k]])]_vars

\* the result of a window's getState() handed to the constructor as config
StateAsConfig(o) ==
  LET st == getState(o)
  IN [width |-> Some(st.width), height |-> Some(st.height),
      x |-> Some(st.x), y |-> Some(st.y), styles |-> TRUE,
      title |-> st.title, content |-> st.content, isMinimized |-> st.isMinimized,
      events |-> o.events]

\* C35: in every state, for every window, a window constructed from the
\* window's getState() has its x, y, width, height and minimized flag,
\* whatever Math.random() gives the constructor.
C35_ConstructFromState ==
  \A h \in Handles, rx \in Geom.randoms, ry \in Geom.randoms :
    LET copy == Window("copy", objs[h].className, StateAsConfig(objs[h]), rx, ry, Cur)
    IN /\ Geometry(copy) = Geometry(objs[h])
       /\ copy.isMinimized = objs[h].isMinimized

\* newWindow gives its window a fresh uuid as id; createWindow's callers
\* give theirs
ViaNewWindow(o) == \E n \in 1..Len(objs) : o.id = Uuid(n)

\* C36: the ids that have a taskbar pin are the ids of the member windows
\* that newWindow created.
C36_PinsAreNewWindowMembers ==
  icons = { objs[h].id : h \in { g \in Members : ViaNewWindow(objs[g]) } }

\* the removal of a member window that newWindow had created completed and
\* took its pin, beside another such window that keeps its own
C36_Witness ==
  /\ lastOp.op \in {"removeWindow", "close"}
  /\ lastOp.member
  /\ ~threw
  /\ ViaNewWindow(objs[lastOp.h])
  /\ objs[lastOp.h].id \notin icons
  /\ \E g \in Members : ViaNewWindow(objs[g]) /\ icons = {objs[g].id}

\* C37: a global pointer-up leaves every window that was resizing idle,
\* having emitted resize exactly once, and makes no other window emit
\* resize, however many mouseup listeners earlier startResize calls have
\* left on the document.
C37_ResizeEndsOnce ==
  [][lastOp'.op = "mouseup" =>
       \A h \in Handles :
         /\ ~objs'[h].isResizing
         /\ Count(emitted', <<"resize", h>>) = IF objs[h].isResizing THEN 1 ELSE 0]_vars

\* a pointer-up ended the second resize of a window: two mouseup listeners
\* of that window ran and resize was emitted once
C37_Witness ==
  /\ lastOp.op = "mouseup"
  /\ \E h \in Handles :
       /\ listeners[h] = 2
       /\ ~objs[h].isResizing
       /\ Count(emitted, <<"resize", h>>) = 1
       /\ Len(emitted) = 1

====
